---- MODULE Spec2Model ----
(***************************************************************************)
(* Model of the IPMI-over-LAN disable tools.                               *)
(*                                                                         *)
(*   disable_ipmi_idrac_redfish.py  - HTTP (Redfish) variant               *)
(*   disable_ipmi_idrac.py          - shell (SSH / racadm) variant         *)
(*                                                                         *)
(* One behaviour is one call of process_hosts on a host list.  Every       *)
(* action is one request/response step of the per-target run (one loop     *)
(* iteration of a resolver, one SSH command) together with all the local   *)
(* control flow that follows it up to the next request.  The remote        *)
(* controller is not modelled: every response is drawn from the set of     *)
(* responses the transport can deliver.                                    *)
(***************************************************************************)
EXTENDS Integers, Sequences, FiniteSets, TLC

VARIABLES
    variant,        \* "http" or "shell": which of the two tools is running
    hosts,          \* process_hosts argument: the host list
    reboot_after,   \* process_hosts argument (HTTP tool only)
    pc,             \* position of the run
    i,              \* enumerate(hosts, 1) index of the current host
    success_count,  \* process_hosts local
    fail_count,     \* process_hosts local
    results,        \* per host, in call order: the boolean returned by
                    \* disable_ipmi, what the initial status read reported
                    \* and whether a write request was sent
    pass,           \* resolver pass in progress (or last finished)
    cand,           \* index of the next candidate of the pass
    passlog,        \* requests of the current pass with their responses
    status,         \* what the initial status read reported
    apply,          \* outcome of the apply step
    verify,         \* outcome of the verification re-read
    reboot,         \* outcome of the restart pass
    writes,         \* write requests (PATCH, racadm set) sent to the host
    posts,          \* restart requests (POST) sent to the current host
    session,        \* sessions opened for the current host so far
    message,        \* message returned by the last failed or applied step
    exit_code,      \* main: argument of sys.exit after the batch, -1 before
    logfile,        \* log_message: the entries of the log file
    clock,          \* log_message: datetime.now(), in seconds
    interrupt_at,   \* the value of i when KeyboardInterrupt was raised, -1
                    \* while none has been
    mgr_pc,         \* IDracManager: "idle", or the position in set_dns_servers
    mgr_cand,       \* set_dns_servers: index of the candidate in `endpoints`
    mgr_log,        \* IDracManager: the requests sent through self.session
    mgr_ret,        \* api_request: the latest call and what it returned
    attributes,     \* get_ipmi_status: data["Attributes"] of the 200 answer
    reading         \* get_ipmi_status: what it returned for `attributes`

vars == <<variant, hosts, reboot_after, pc, i, success_count, fail_count,
          results, pass, cand, passlog, status, apply, verify, reboot,
          writes, posts, session, message, exit_code, logfile, clock,
          interrupt_at, mgr_pc, mgr_cand, mgr_log, mgr_ret, attributes,
          reading>>

targetVars == <<pass, cand, passlog, status, apply, verify, reboot,
                writes, posts, session, message>>

batchVars == <<i, success_count, fail_count, results>>

argVars == <<variant, hosts, reboot_after>>

logVars == <<logfile, clock>>

sigVars == <<interrupt_at>>

mgrVars == <<mgr_pc, mgr_cand, mgr_log, mgr_ret>>

bagVars == <<attributes, reading>>

\* the variables the batch of the disable tools never touches
auxVars == <<mgrVars, bagVars>>

(***************************************************************************)
(* Bounds                                                                  *)
(***************************************************************************)
MaxHosts == 2

\* log_message: entries written and clock values looked at
MaxLog == 3

\* IDracManager: api_request calls made from outside set_dns_servers
MaxCalls == 1

\* get_ipmi_status: entries of the attribute bag of an answer
MaxAttrs == 2

\* the hosts file: distinct lines, in file order (a host keeps no state
\* between two runs of the loop body, so a repeated host adds no case)
HostNames == <<"h1", "h2", "h3", "h4">>

HostIds == {HostNames[k] : k \in 1..MaxHosts}

HostLists == {SubSeq(HostNames, 1, n) : n \in 1..MaxHosts}

(***************************************************************************)
(* HTTP responses.  st = 0 stands for a requests.exceptions.               *)
(* RequestException (timeout, connection refused, unreachable): there is   *)
(* no response.  The body only matters to the code when a GET answers 200. *)
(***************************************************************************)
TransportError == [st |-> 0, body |-> "none"]

ErrorCodes == {401, 500}

\* bodies of a 200 answer to a GET of a status endpoint
\*   setting_on   the IPMI setting is there and reads enabled
\*   setting_off  the IPMI setting is there and reads disabled
\*   no_setting   a JSON object without the IPMI setting
\*   malformed    not a JSON object: response.json() or data.get raises
GetBodies == {"setting_on", "setting_off", "no_setting", "malformed"}

GetResponses ==
    {[st |-> 200, body |-> b] : b \in GetBodies}
        \cup {[st |-> s, body |-> "text"] : s \in ErrorCodes \cup {404}}
        \cup {TransportError}

WriteResponses ==
    {[st |-> s, body |-> "text"] : s \in {200, 204, 404} \cup ErrorCodes}
        \cup {TransportError}

\* get_ipmi_status: endpoints (3 candidates)
StatusEndpoints == <<"iDRAC.Embedded.1/NetworkProtocol",
                     "System.Embedded.1/NetworkProtocol",
                     "iDRAC.Embedded.1/Attributes">>

\* disable_ipmi_networkprotocol: endpoints
NetworkProtocolEndpoints == <<"iDRAC.Embedded.1/NetworkProtocol",
                              "System.Embedded.1/NetworkProtocol">>

\* disable_ipmi_attributes: endpoints
AttributesEndpoints == <<"iDRAC.Embedded.1/Attributes",
                         "System.Embedded.1/Attributes">>

\* reboot_idrac: endpoints
ResetEndpoints == <<"iDRAC.Embedded.1/Actions/Manager.Reset",
                    "System.Embedded.1/Actions/Manager.Reset">>

MutPayloadRestores(method, endpoint) ==
    IF method = "POST" THEN "ResetType=GracefulRestart"
    ELSE IF method = "PATCH" THEN "IPMI.ProtocolEnabled=true"
    ELSE "none"

\* the JSON body sent with a request
\*   disable_ipmi_networkprotocol  {"IPMI": {"ProtocolEnabled": false}}
\*   disable_ipmi_attributes       {"Attributes": {<ipmi_key>: "Disabled"}}
\*   reboot_idrac                  {"ResetType": "GracefulRestart"}
Payload(method, endpoint) ==
    IF method = "POST" THEN "ResetType=GracefulRestart"
    ELSE IF method = "PATCH"
      THEN (IF endpoint \in {"iDRAC.Embedded.1/NetworkProtocol",
                             "System.Embedded.1/NetworkProtocol"}
              THEN "IPMI.ProtocolEnabled=false"
              ELSE "Attributes.ipmi_key=Disabled")
    ELSE "none"

\* one request to the current host, made through session number s of the
\* run for that host, with the response it got
Req(method, endpoint, resp, s) ==
    [host |-> hosts[i], session |-> s, m |-> method, ep |-> endpoint,
     payload |-> Payload(method, endpoint), st |-> resp.st, body |-> resp.body,
     out |-> <<>>]

\* the message of an error status: f"HTTP {response.status_code}..."
HttpError(st) ==
    IF st = 401 THEN "HTTP 401"
    ELSE IF st = 404 THEN "HTTP 404"
    ELSE IF st = 500 THEN "HTTP 500"
    ELSE "HTTP error"

(***************************************************************************)
(* Shell transport: results of execute_ssh_command.  Outputs are sequences *)
(* of characters so that the substring tests of the code can be computed.  *)
(***************************************************************************)
EnableDisabled == <<"E","n","a","b","l","e","=","D","i","s","a","b","l","e","d">>

EnableZero == <<"E","n","a","b","l","e","=","0">>

EnableEnabled == <<"E","n","a","b","l","e","=","E","n","a","b","l","e","d">>

EnableOne == <<"E","n","a","b","l","e","=","1">>

LowerDisabled == <<"e","n","a","b","l","e","=","d","i","s","a","b","l","e","d">>

KeyLine == <<"[","K","e","y","]"," ">>

SshOutputs == {KeyLine \o EnableDisabled, EnableZero, KeyLine \o EnableEnabled,
               EnableOne, LowerDisabled, <<>>}

\* Python's `needle in hay` on strings
Contains(hay, needle) ==
    \E k \in 0..(Len(hay) - Len(needle)) :
        SubSeq(hay, k + 1, k + Len(needle)) = needle

\* disable_ipmi (shell): the test applied to the verification output
IsDisabledOutput(out) ==
    Contains(out, EnableDisabled) \/ Contains(out, EnableZero)

\* execute_ssh_command: (success, output, error); `executed` tells whether
\* exec_command was reached before the call returned
SshResults ==
    {[ok |-> TRUE, out |-> o, err |-> "", executed |-> TRUE] : o \in SshOutputs}
      \cup {[ok |-> FALSE, out |-> <<>>,
             err |-> "Authentication failed - check username/password",
             executed |-> FALSE]}
      \cup {[ok |-> FALSE, out |-> <<>>, err |-> e, executed |-> x] :
               e \in {"SSH error", "Connection error"}, x \in BOOLEAN}

\* execute_ssh_command: ssh.connect returned, the connection is open
SshConnected(r) == r.executed

\* execute_ssh_command: ssh.close() is the statement before
\* `return True, output, error`; no except branch and no finally calls it
SshClosed(r) == r.ok

\* one execute_ssh_command call to the current host, over SSH connection
\* number s of the run for that host, with its result
SshReq(command, r, s) ==
    [host |-> hosts[i], session |-> s, m |-> "SSH", ep |-> command,
     payload |-> "none", st |-> IF r.ok THEN 200 ELSE 0, body |-> r.err,
     out |-> r.out, connected |-> SshConnected(r), closed |-> SshClosed(r)]

(***************************************************************************)
(* The extended manager and the attribute bag, before any call             *)
(***************************************************************************)
\* no api_request call has returned yet
NoReturn == [called |-> FALSE, method |-> "none", kind |-> "none", st |-> 0,
             before |-> 0, ok |-> FALSE, msg |-> "none", raised |-> FALSE]

\* get_ipmi_status has not read an attribute bag yet
NoReading == [found |-> FALSE, enabled |-> FALSE, key |-> <<>>,
              next |-> "none"]

AuxInit ==
    /\ mgr_pc = "idle"
    /\ mgr_cand = 0
    /\ mgr_log = <<>>
    /\ mgr_ret = NoReturn
    /\ attributes = <<>>
    /\ reading = NoReading

(***************************************************************************)
(* process_hosts                                                           *)
(***************************************************************************)
RunInit ==
    /\ variant \in {"http", "shell"}
    /\ hosts \in HostLists
    /\ reboot_after \in (IF variant = "http" THEN BOOLEAN ELSE {FALSE})
    /\ pc = "loop"
    /\ i = 0
    /\ success_count = 0
    /\ fail_count = 0
    /\ results = <<>>
    /\ pass = "none"
    /\ cand = 1
    /\ passlog = <<>>
    /\ status = "none"
    /\ apply = "none"
    /\ verify = "none"
    /\ reboot = "none"
    /\ writes = 0
    /\ posts = 0
    /\ session = 0
    /\ message = "none"
    /\ exit_code = -1
    /\ interrupt_at = -1
    /\ AuxInit

\* the batch model leaves the log file aside (see LogSpec)
Init ==
    /\ RunInit
    /\ logfile = <<>>
    /\ clock = 0

MutSuccessCountSkipsUnchanged(ok) ==
    IF ok /\ writes > 0 THEN success_count + 1 ELSE success_count

\* process_hosts: `success_count += 1` when disable_ipmi returned True
NextSuccessCount(ok) == IF ok THEN success_count + 1 ELSE success_count

MutFailCountDropped(ok) == fail_count

\* process_hosts: `fail_count += 1` when disable_ipmi returned False
NextFailCount(ok) == IF ok THEN fail_count ELSE fail_count + 1

MutNextHostOverlaps == IF i + 2 <= Len(hosts) THEN i + 2 ELSE i + 1

\* process_hosts: enumerate(hosts, 1) advances to the next host
NextHost == i + 1

MutAbortOnFailure(ok) ==
    IF ok /\ i < Len(hosts)
      THEN (IF variant = "shell" THEN "pace" ELSE "loop")
      ELSE "done"

\* process_hosts: where the run goes once disable_ipmi has returned `ok`:
\* the next host whatever `ok` is (the shell tool sleeps first), or the
\* return after the last host
AfterHost(ok) ==
    IF i < Len(hosts)
      THEN (IF variant = "shell" THEN "pace" ELSE "loop")
      ELSE "done"

\* disable_ipmi has returned `ok`: the rest of the loop body of process_hosts
Finish(ok) ==
    /\ success_count' = NextSuccessCount(ok)
    /\ fail_count' = NextFailCount(ok)
    /\ results' = Append(results, [host |-> hosts[i], ok |-> ok,
                                   status |-> status',
                                   wrote |-> writes' > 0])
    /\ pc' = AfterHost(ok)
    /\ UNCHANGED <<i, cand>>

\* process_hosts: top of the loop body, up to the first request of
\* disable_ipmi
StartHost ==
    /\ pc = "loop"
    /\ i < Len(hosts)
    /\ i' = NextHost
    /\ pc' = IF variant = "http" THEN "read" ELSE "ssh_read"
    /\ pass' = "none"
    /\ cand' = 1
    /\ passlog' = <<>>
    /\ status' = "none"
    /\ apply' = "none"
    /\ verify' = "none"
    /\ reboot' = "none"
    /\ writes' = 0
    /\ posts' = 0
    /\ session' = 0
    /\ message' = "none"
    /\ UNCHANGED <<success_count, fail_count, results, argVars, auxVars, sigVars, logVars, exit_code>>

\* process_hosts (shell): time.sleep(0.5) between hosts
Pace ==
    /\ pc = "pace"
    /\ pc' = "loop"
    /\ UNCHANGED <<batchVars, targetVars, argVars, auxVars, sigVars, logVars, exit_code>>

MutSessionPerHost == IF session = 0 THEN 1 ELSE session

\* get_ipmi_status, disable_ipmi_networkprotocol, disable_ipmi_attributes,
\* reboot_idrac: each call starts with `session = requests.Session()`, a new
\* object that the candidates of that call share; the session of the request
\* to candidate `cand` of the call
SessionOf == IF cand = 1 THEN session + 1 ELSE session

MutSshRetriesOnFailure(r) == IF r.ok THEN 1 ELSE 2

\* execute_ssh_command: connections opened by one call
\* (`ssh = paramiko.SSHClient()`, one `ssh.connect`, no loop)
SshConnects(r) == 1

\* a request of pass p is logged; the first request of a step starts its
\* log (the apply step is the NetworkProtocol pass followed, when it
\* failed, by the Attributes pass: one log)
Logged(p, req) ==
    /\ pass' = p
    /\ passlog' = IF pass = p \/ (pass = "netproto" /\ p = "attributes")
                    THEN Append(passlog, req)
                    ELSE <<req>>

MutContinueRetries(p) ==
    /\ pc' = p
    /\ cand' = cand
    /\ UNCHANGED batchVars

\* `continue` in the `for endpoint in endpoints:` loop of a resolver: the
\* next candidate of the list
Continue(p) ==
    /\ pc' = p
    /\ cand' = cand + 1
    /\ UNCHANGED batchVars

Enter(p) ==
    /\ pc' = p
    /\ cand' = 1
    /\ UNCHANGED batchVars

(***************************************************************************)
(* HTTP variant: get_ipmi_status                                           *)
(***************************************************************************)
MutFoundOnAnyOk(r) == r.st = 200 /\ r.body # "malformed"

\* get_ipmi_status: the candidate's answer carries the setting, the call
\* returns (True, enabled, ...)
StatusFound(r) == r.st = 200 /\ r.body \in {"setting_on", "setting_off"}

StatusEnabled(r) == r.body = "setting_on"

\* get_ipmi_status: the answer makes the loop body raise.  response.json()
\* raising a JSON error is a RequestException in recent versions of the
\* requests library (caught, next candidate) and a ValueError in older ones;
\* a JSON body that is no object makes data.get raise AttributeError.
StatusRaises(r, caught) == r.st = 200 /\ r.body = "malformed" /\ ~caught

MutShortCircuitNever(enabled) == FALSE

MutShortCircuitAfterFailure(enabled) == ~enabled \/ fail_count > 0

\* disable_ipmi: `if not current_status: ... return True`
ShortCircuit(enabled) == ~enabled

MutRebootAlways(v) == TRUE

MutRebootOnlyUnconfirmed(v) == reboot_after /\ v = "unconfirmed"

\* disable_ipmi: `if reboot_after:` in each of the three verification
\* branches (v is the verification outcome)
RebootWanted(v) == reboot_after

MutUnconfirmedFails(v, rb) == v # "unconfirmed"

MutUnavailableFails(v, rb) == v # "unavailable"

MutRebootFailureFails(v, rb) == rb # "failed"

\* disable_ipmi: the value returned after a successful apply, given the
\* verification outcome v and the restart outcome rb ("none": no restart)
VerifiedResult(v, rb) == TRUE

MutUncaught ==
    /\ pc' = "crashed"
    /\ UNCHANGED <<batchVars, cand>>

\* disable_ipmi: `except Exception as e:` logs `ERROR: {str(e)}` and
\* returns False
Caught == Finish(FALSE)

\* disable_ipmi: initial status read, one candidate of get_ipmi_status
ReadStatus ==
    /\ pc = "read"
    /\ \E r \in GetResponses, caught \in BOOLEAN :
         /\ Logged("read", Req("GET", StatusEndpoints[cand], r, SessionOf))
         /\ session' = SessionOf
         /\ UNCHANGED <<apply, verify, reboot, writes, posts,
                        argVars, auxVars, sigVars, logVars, exit_code>>
         /\ IF StatusRaises(r, caught)
              THEN /\ status' = "raised"
                   /\ message' = "exception"
                   /\ Caught
              ELSE IF StatusFound(r)
              THEN /\ status' = IF StatusEnabled(r) THEN "enabled"
                                                     ELSE "disabled"
                   /\ message' = message
                   /\ IF ShortCircuit(StatusEnabled(r))
                        THEN Finish(TRUE)
                        ELSE Enter("netproto")
              ELSE IF cand < Len(StatusEndpoints)
              THEN /\ status' = status
                   /\ message' = message
                   /\ Continue("read")
              ELSE /\ status' = "failed"
                   /\ message' = "Could not find IPMI settings endpoint"
                   /\ Finish(FALSE)

\* the apply step succeeded: up to time.sleep(2)
Applied ==
    /\ apply' = "ok"
    /\ Enter("wait")

MutApplyFailureSucceeds == TRUE

\* disable_ipmi: the value returned when the apply step failed
\* (`FAILED: {message}` / `Failed to disable IPMI over LAN`)
ApplyFailedResult == FALSE

MutApplyFailedVerifies ==
    /\ apply' = "failed"
    /\ Enter(IF variant = "http" THEN "wait" ELSE "ssh_wait")

\* the apply step failed
ApplyFailed ==
    /\ apply' = "failed"
    /\ Finish(ApplyFailedResult)

\* disable_ipmi_networkprotocol: one candidate
PatchNetworkProtocol ==
    /\ pc = "netproto"
    /\ \E r \in WriteResponses :
         /\ Logged("netproto", Req("PATCH", NetworkProtocolEndpoints[cand], r, SessionOf))
         /\ session' = SessionOf
         /\ writes' = writes + 1
         /\ UNCHANGED <<status, verify, reboot, posts, argVars, auxVars, sigVars, logVars, exit_code>>
         /\ IF r.st \in {200, 204}
              THEN /\ message' = "IPMI disabled via NetworkProtocol endpoint"
                   /\ Applied
              ELSE IF r.st \in {404, 0} /\ cand < Len(NetworkProtocolEndpoints)
              THEN /\ apply' = apply
                   /\ message' = message
                   /\ Continue("netproto")
              ELSE \* definitive error or candidates exhausted: disable_ipmi
                   \* falls back to disable_ipmi_attributes; the message
                   \* of the failed call is overwritten, never logged
                   /\ apply' = apply
                   /\ message' = message
                   /\ Enter("attr_get")

\* disable_ipmi_attributes: the GET of one candidate
GetAttributes ==
    /\ pc = "attr_get"
    /\ \E r \in GetResponses, caught \in BOOLEAN :
         /\ Logged("attributes", Req("GET", AttributesEndpoints[cand], r, SessionOf))
         /\ session' = SessionOf
         /\ UNCHANGED <<status, verify, reboot, writes, posts,
                        argVars, auxVars, sigVars, logVars, exit_code>>
         /\ IF StatusRaises(r, caught)
              THEN /\ apply' = "raised"
                   /\ message' = "exception"
                   /\ Caught
              ELSE IF StatusFound(r)
              THEN /\ apply' = apply
                   /\ message' = message
                   /\ pc' = "attr_patch"
                   /\ UNCHANGED <<cand, batchVars>>
              ELSE IF cand < Len(AttributesEndpoints)
              THEN /\ apply' = apply
                   /\ message' = message
                   /\ Continue("attr_get")
              ELSE /\ message' = "Attributes endpoint not available"
                   /\ ApplyFailed

\* disable_ipmi_attributes: the PATCH of the candidate whose GET found the key
PatchAttributes ==
    /\ pc = "attr_patch"
    /\ \E r \in WriteResponses :
         /\ Logged("attributes", Req("PATCH", AttributesEndpoints[cand], r, session))
         /\ session' = session
         /\ writes' = writes + 1
         /\ UNCHANGED <<status, verify, reboot, posts, argVars, auxVars, sigVars, logVars,
                        exit_code>>
         /\ IF r.st \in {200, 204}
              THEN /\ message' = "IPMI disabled via Attributes endpoint"
                   /\ Applied
              ELSE IF r.st = 0 /\ cand < Len(AttributesEndpoints)
              THEN /\ apply' = apply
                   /\ message' = message
                   /\ Continue("attr_get")
              ELSE /\ message' = IF r.st = 0
                                   THEN "Attributes endpoint not available"
                                   ELSE HttpError(r.st)
                   /\ ApplyFailed

\* disable_ipmi: time.sleep(2) before the verification read
VerifyWait ==
    /\ pc = "wait"
    /\ pc' = "verify"
    /\ UNCHANGED <<batchVars, targetVars, argVars, auxVars, sigVars, logVars, exit_code>>

MutVerifiedPolls(v) ==
    IF v = "unconfirmed"
      THEN /\ verify' = verify
           /\ reboot' = reboot
           /\ Enter("wait")
      ELSE /\ verify' = v
           /\ reboot' = reboot
           /\ Finish(VerifiedResult(v, "none"))

\* disable_ipmi: the verification outcome is known
Verified(v) ==
    /\ verify' = v
    /\ IF RebootWanted(v)
         THEN /\ Enter("reboot")
              /\ reboot' = reboot
         ELSE /\ Finish(VerifiedResult(v, "none"))
              /\ reboot' = reboot

\* disable_ipmi: verification read, one candidate of get_ipmi_status
VerifyStatus ==
    /\ pc = "verify"
    /\ \E r \in GetResponses, caught \in BOOLEAN :
         /\ Logged("verify", Req("GET", StatusEndpoints[cand], r, SessionOf))
         /\ session' = SessionOf
         /\ UNCHANGED <<status, apply, writes, posts, argVars, auxVars, sigVars, logVars,
                        exit_code>>
         /\ IF StatusRaises(r, caught)
              THEN /\ verify' = "raised"
                   /\ reboot' = reboot
                   /\ message' = "exception"
                   /\ Caught
              ELSE IF StatusFound(r)
              THEN /\ message' = message
                   /\ Verified(IF StatusEnabled(r) THEN "unconfirmed"
                                                   ELSE "confirmed")
              ELSE IF cand < Len(StatusEndpoints)
              THEN /\ verify' = verify
                   /\ reboot' = reboot
                   /\ message' = message
                   /\ Continue("verify")
              ELSE /\ message' = message
                   /\ Verified("unavailable")

\* reboot_idrac: one candidate
PostReset ==
    /\ pc = "reboot"
    /\ \E r \in WriteResponses :
         /\ Logged("reboot", Req("POST", ResetEndpoints[cand], r, SessionOf))
         /\ session' = SessionOf
         /\ posts' = posts + 1
         /\ UNCHANGED <<status, apply, verify, writes, message,
                        argVars, auxVars, sigVars, logVars, exit_code>>
         /\ IF r.st \in {200, 204}
              THEN /\ reboot' = "ok"
                   /\ Finish(VerifiedResult(verify, "ok"))
              ELSE IF r.st \in {404, 0} /\ cand < Len(ResetEndpoints)
              THEN /\ reboot' = reboot
                   /\ Continue("reboot")
              ELSE /\ reboot' = "failed"
                   /\ Finish(VerifiedResult(verify, "failed"))

(***************************************************************************)
(* Shell variant                                                           *)
(***************************************************************************)
MutShellSkipsWrite(r) == r.ok /\ ~IsDisabledOutput(r.out)

MutShellIgnoresReadFailure(r) == TRUE

\* disable_ipmi (shell): after the status read the write command is run
\* whenever the read succeeded (the status text is only logged); when the
\* read failed disable_ipmi returns False
ShellProceeds(r) == r.ok

MutShellUnconfirmedSucceeds(success, out) == TRUE

\* disable_ipmi (shell): the value returned after an accepted write, given
\* the result (success, output) of the verification read
ShellVerifiedResult(success, out) == IF success THEN IsDisabledOutput(out) ELSE TRUE

\* disable_ipmi (shell): check_ipmi_status, `racadm get iDRAC.IPMILan.Enable`
SshReadStatus ==
    /\ pc = "ssh_read"
    /\ \E r \in SshResults :
         /\ Logged("ssh_read", SshReq("racadm get iDRAC.IPMILan.Enable", r,
                                     session + SshConnects(r)))
         /\ session' = session + SshConnects(r)
         /\ UNCHANGED <<apply, verify, reboot, writes, posts,
                        argVars, auxVars, sigVars, logVars, exit_code>>
         /\ status' = IF ~r.ok THEN "failed"
                      ELSE IF IsDisabledOutput(r.out) THEN "disabled"
                      ELSE "enabled"
         /\ message' = IF r.ok THEN message ELSE r.err
         /\ IF ShellProceeds(r)
              THEN Enter("ssh_set")
              ELSE Finish(r.ok)

\* disable_ipmi (shell): `racadm set iDRAC.IPMILan.Enable 0`
SshSet ==
    /\ pc = "ssh_set"
    /\ \E r \in SshResults :
         /\ Logged("ssh_set", SshReq("racadm set iDRAC.IPMILan.Enable 0", r,
                                     session + SshConnects(r)))
         /\ session' = session + SshConnects(r)
         /\ writes' = IF r.executed THEN writes + 1 ELSE writes
         /\ UNCHANGED <<status, verify, reboot, posts, argVars, auxVars, sigVars, logVars,
                        exit_code>>
         /\ message' = IF r.ok THEN message ELSE r.err
         /\ IF r.ok
              THEN /\ apply' = "ok"
                   /\ Enter("ssh_wait")
              ELSE ApplyFailed

\* disable_ipmi (shell): time.sleep(1) before the verification read
SshVerifyWait ==
    /\ pc = "ssh_wait"
    /\ pc' = "ssh_verify"
    /\ UNCHANGED <<batchVars, targetVars, argVars, auxVars, sigVars, logVars, exit_code>>

\* disable_ipmi (shell): verification read and the returned value
SshVerify ==
    /\ pc = "ssh_verify"
    /\ \E r \in SshResults :
         /\ Logged("ssh_verify", SshReq("racadm get iDRAC.IPMILan.Enable", r,
                                     session + SshConnects(r)))
         /\ session' = session + SshConnects(r)
         /\ verify' = IF ~r.ok THEN "unavailable"
                      ELSE IF IsDisabledOutput(r.out) THEN "confirmed"
                      ELSE "unconfirmed"
         /\ UNCHANGED <<status, apply, reboot, writes, posts,
                        message, argVars, auxVars, sigVars, logVars, exit_code>>
         /\ Finish(ShellVerifiedResult(r.ok, r.out))

(***************************************************************************)
(* main: exit status after the batch                                       *)
(***************************************************************************)
MutExitZeroOnPartial(sc, fc) == IF sc > 0 THEN 0 ELSE 1

\* main: `if fail_count == 0: ... sys.exit(0)` / `else: ... sys.exit(1)`,
\* given the counts process_hosts returned
ExitCode(sc, fc) == IF fc = 0 THEN 0 ELSE 1

\* main: the summary and sys.exit after process_hosts returned
Exit ==
    /\ pc = "done"
    /\ pc' = "exited"
    /\ exit_code' = ExitCode(success_count, fail_count)
    /\ UNCHANGED <<batchVars, targetVars, argVars, auxVars, sigVars, logVars>>

Next ==
    \/ StartHost
    \/ Pace
    \/ ReadStatus
    \/ PatchNetworkProtocol
    \/ GetAttributes
    \/ PatchAttributes
    \/ VerifyWait
    \/ VerifyStatus
    \/ PostReset
    \/ SshReadStatus
    \/ SshSet
    \/ SshVerifyWait
    \/ SshVerify
    \/ Exit

Spec == Init /\ [][Next]_vars

\* the positions at which the run is inside execute_ssh_command
SshCallPcs == {"ssh_read", "ssh_set", "ssh_verify"}

\* A step whose end the code itself bounds: local control flow, a
\* time.sleep, or an HTTP request (every session.get / patch / post is given
\* timeout=self.timeout, so it answers or raises).  execute_ssh_command is
\* not such a step: ssh.connect has timeout=self.ssh_timeout, but
\* exec_command is called without a timeout and stdout.read() /
\* stderr.read() wait for the remote side to close the channel.
BoundedStep == pc \notin SshCallPcs /\ Next

\* The single thread goes on whenever its next step is a bounded one; the
\* return of execute_ssh_command is left to the remote side.
FairSpec == Spec /\ WF_vars(BoundedStep)

(***************************************************************************)
(* The batch under an interrupt: IntSpec raises one KeyboardInterrupt at   *)
(* any point of the batch                                                  *)
(***************************************************************************)
\* the interrupt arrives inside one of the `try: response.json() ...
\* log_api_response(...) except:` blocks that follow a PATCH or a POST
\* (redfish 166-170, 178-183, 241-245, 251-256, 302-306): the step under way
\* has received the response to a PATCH or a POST to the current host
InBareExcept ==
    /\ variant = "http"
    /\ pc \notin {"loop", "pace", "done", "exited", "interrupted"}
    /\ \E k \in 1..Len(passlog) :
         passlog[k].m \in {"PATCH", "POST"} /\ passlog[k].st # 0

\* KeyboardInterrupt anywhere else: no handler of either tool catches it
\* (`except Exception`, `except RequestException`, `except SSHException` do
\* not), so it leaves process_hosts and main and ends the process
Interrupt ==
    /\ interrupt_at = -1
    /\ pc \notin {"done", "exited", "interrupted"}
    /\ interrupt_at' = i
    /\ pc' = "interrupted"
    /\ UNCHANGED <<batchVars, targetVars, argVars, auxVars, logVars, exit_code>>

\* KeyboardInterrupt inside a bare `except:` block: the handler logs the
\* response text and the function goes on with the status code it has
InterruptInBareExcept ==
    /\ interrupt_at = -1
    /\ InBareExcept
    /\ interrupt_at' = i
    /\ UNCHANGED <<pc, batchVars, targetVars, argVars, auxVars, logVars, exit_code>>

IntNext == Next \/ Interrupt \/ InterruptInBareExcept

IntSpec == Init /\ [][IntNext]_vars

(***************************************************************************)
(* log_message, on its own: LogSpec calls it with any message at any time  *)
(***************************************************************************)
\* messages passed to log_message: a plain line, the empty line the tools
\* log as a separator, and a text of several lines (the racadm output)
LogMessages == {"[h1] Connecting to iDRAC...", "", "Enable=Disabled\nmore"}

\* log_message: log_entry = f"[{timestamp}] {message}", written with "\n"
LogEntry(timestamp, m) == [ts |-> timestamp, text |-> m]

MutTruncatingWrite(file, entry) == <<entry>>

\* log_message: `with open(self.log_file, 'a') as f: f.write(...)`
Written(file, entry) == Append(file, entry)

\* the log file when the tool starts: the file name carries the start time,
\* so the file is new, or is left from a run started in the same second
LogInit ==
    /\ RunInit
    /\ logfile \in {<<>>, <<LogEntry(0, "Summary")>>}
    /\ clock = 0

\* log_message(message)
LogMessage ==
    /\ Len(logfile) < MaxLog
    /\ \E m \in LogMessages :
         logfile' = Written(logfile, LogEntry(clock, m))
    /\ UNCHANGED <<clock, pc, batchVars, targetVars, argVars, auxVars, sigVars, exit_code>>

\* time passes between two calls
Tick ==
    /\ clock < MaxLog
    /\ clock' = clock + 1
    /\ UNCHANGED <<logfile, pc, batchVars, targetVars, argVars, auxVars, sigVars, exit_code>>

LogNext == LogMessage \/ Tick

LogSpec == LogInit /\ [][LogNext]_vars

(***************************************************************************)
(* The extended manager (idrac_manager.py): api_request and                *)
(* set_dns_servers, on their own.  The manager is another program: the     *)
(* variables of the disable tools stay at one initial value.               *)
(***************************************************************************)
toolVars == <<pc, batchVars, targetVars, argVars, exit_code, sigVars, logVars>>

MgrInit ==
    /\ Init
    /\ variant = "http"
    /\ hosts = <<HostNames[1]>>
    /\ ~reboot_after

\* the `method` argument: the five the code serves, a lower-case spelling and
\* one it does not serve
ApiMethods == {"GET", "POST", "PATCH", "patch", "PUT", "DELETE", "HEAD"}

\* method.upper()
Upper(m) == IF m = "patch" THEN "PATCH" ELSE m

\* api_request: the branches of the if / elif chain
SupportedMethods == {"GET", "POST", "PATCH", "PUT", "DELETE"}

\* what the session call does: it returns a response with a status, or it
\* raises requests.exceptions.Timeout, ConnectionError or something else
ApiOutcomes ==
    {[kind |-> "response", st |-> c] : c \in {200, 201, 202, 204, 206, 404, 500}}
        \cup {[kind |-> k, st |-> 0] : k \in {"timeout", "connection", "other"}}

MutCatchesTransportOnly(kind) == kind \in {"timeout", "connection"}

\* api_request: `except Timeout`, `except ConnectionError`,
\* `except Exception` around the whole body
ApiCaught(kind) == kind \in {"timeout", "connection", "other"}

MutAnySuccessClass(st) == st \in 200..299

\* api_request: `if response.status_code in [200, 201, 202, 204]`
ApiSucceeds(st) == st \in {200, 201, 202, 204}

\* api_request(method, endpoint, ...) when the session call behaves as o:
\* whether a request was sent, and (ok, msg) returned unless it raised
api_request(method, o) ==
    IF Upper(method) \notin SupportedMethods
      THEN [sent |-> FALSE, ok |-> FALSE, msg |-> "Unsupported method",
            raised |-> FALSE]
    ELSE IF o.kind # "response"
      THEN [sent |-> TRUE, ok |-> FALSE,
            msg |-> IF o.kind = "timeout" THEN "Request timeout"
                    ELSE IF o.kind = "connection" THEN "Connection error"
                    ELSE "Error",
            raised |-> ~ApiCaught(o.kind)]
    ELSE IF ApiSucceeds(o.st)
      THEN [sent |-> TRUE, ok |-> TRUE, msg |-> "payload", raised |-> FALSE]
      ELSE [sent |-> TRUE, ok |-> FALSE, msg |-> "HTTP error", raised |-> FALSE]

\* the record of one api_request call: its inputs, the number of requests
\* sent before it, and its result
ReturnOf(method, o, r) ==
    [called |-> TRUE, method |-> method, kind |-> o.kind, st |-> o.st,
     before |-> Len(mgr_log), ok |-> r.ok, msg |-> r.msg, raised |-> r.raised]

\* the requests sent through self.session after the call
SentLog(method, endpoint, o, r) ==
    IF r.sent
      THEN Append(mgr_log, [m |-> Upper(method), ep |-> endpoint, st |-> o.st])
      ELSE mgr_log

\* any operation of the manager calls api_request
CallApiRequest ==
    /\ mgr_pc = "idle"
    /\ Len(mgr_log) < MaxCalls
    /\ \E method \in ApiMethods, o \in ApiOutcomes :
         LET r == api_request(method, o)
         IN  /\ mgr_ret' = ReturnOf(method, o, r)
             /\ mgr_log' = SentLog(method, "/redfish/v1/Managers/iDRAC.Embedded.1", o, r)
    /\ UNCHANGED <<mgr_pc, mgr_cand, bagVars, toolVars>>

\* set_dns_servers: endpoints
DnsEndpoints == <<"iDRAC.Embedded.1/Attributes",
                  "iDRAC.Embedded.1/NetworkProtocol">>

\* set_dns_servers is called (as the first operation of the manager: the
\* session keeps nothing from one call to the next)
SetDnsServers ==
    /\ mgr_pc = "idle"
    /\ mgr_log = <<>>
    /\ mgr_pc' = "dns"
    /\ mgr_cand' = 1
    /\ mgr_ret' = NoReturn
    /\ UNCHANGED <<mgr_log, bagVars, toolVars>>

\* set_dns_servers: one turn of `for endpoint in endpoints:`
SetDnsPatch ==
    /\ mgr_pc = "dns"
    /\ \E o \in ApiOutcomes :
         LET r == api_request("PATCH", o)
         IN  /\ mgr_ret' = ReturnOf("PATCH", o, r)
             /\ mgr_log' = SentLog("PATCH", DnsEndpoints[mgr_cand], o, r)
             /\ IF r.ok
                  THEN mgr_pc' = "dns_true" /\ mgr_cand' = mgr_cand
                  ELSE IF mgr_cand < Len(DnsEndpoints)
                  THEN mgr_pc' = "dns" /\ mgr_cand' = mgr_cand + 1
                  ELSE mgr_pc' = "dns_false" /\ mgr_cand' = mgr_cand
    /\ UNCHANGED <<bagVars, toolVars>>

MgrNext == CallApiRequest \/ SetDnsServers \/ SetDnsPatch

MgrSpec == MgrInit /\ [][MgrNext]_vars

(***************************************************************************)
(* get_ipmi_status on the attribute bag (the third candidate), and what    *)
(* disable_ipmi does with the flag.  Keys are sequences of characters so   *)
(* that the substring tests of the code can be computed; a value carries   *)
(* its JSON type (s: string, n: number, b: boolean).                       *)
(***************************************************************************)
IPMI == <<"I", "P", "M", "I">>

Enable == <<"E", "n", "a", "b", "l", "e">>

\* attribute keys: the IPMI enable key, another key with both words, a key
\* with 'Enable' only, a key with 'IPMI' only, the enable key in lower case
AttributeKeys ==
    {IPMI \o <<".">> \o Enable,
     IPMI \o <<".", "A", "l", "e", "r", "t">> \o Enable,
     <<"S", "N", "M", "P", ".">> \o Enable,
     IPMI \o <<".", "P", "r", "i", "v">>,
     <<"i", "p", "m", "i", ".", "e", "n", "a", "b", "l", "e">>}

AttributeValues == {"s:Enabled", "s:Disabled", "s:1", "s:0", "s:enabled",
                    "n:1", "n:0", "b:true", "b:false", "null"}

\* data["Attributes"]: a JSON object, its keys distinct, in document order
AttributeBags ==
    UNION {{bag \in [1..n -> [key : AttributeKeys, value : AttributeValues]] :
                \A j, k \in 1..n : j # k => bag[j].key # bag[k].key}
            : n \in 0..MaxAttrs}

\* get_ipmi_status: `if "IPMI" in key and "Enable" in key`
IsIpmiKey(key) == Contains(key, IPMI) /\ Contains(key, Enable)

MutEnabledIgnoresCase(value) ==
    value \in {"s:Enabled", "s:enabled", "s:1", "n:1", "b:true"}

\* get_ipmi_status: `enabled = value in ["Enabled", "1", 1, True]`
\* (1 == True in Python: the number 1 and the boolean true both match)
EnabledValue(value) == value \in {"s:Enabled", "s:1", "n:1", "b:true"}

\* get_ipmi_status: `for key, value in attributes.items():` returns at the
\* first key that matches; disable_ipmi then returns True (`if not
\* current_status`) or goes on to the apply step; without a matching key
\* the last candidate is exhausted and disable_ipmi returns False
ReadingOf(bag) ==
    LET matches == {k \in 1..Len(bag) : IsIpmiKey(bag[k].key)}
    IN  IF matches = {}
          THEN [found |-> FALSE, enabled |-> FALSE, key |-> <<>>,
                next |-> "failed"]
          ELSE LET f == CHOOSE k \in matches : \A j \in matches : k <= j
                   enabled == EnabledValue(bag[f].value)
               IN  [found |-> TRUE, enabled |-> enabled, key |-> bag[f].key,
                    next |-> IF ShortCircuit(enabled) THEN "succeeded"
                                                      ELSE "apply"]

BagInit ==
    /\ Init
    /\ variant = "http"
    /\ hosts = <<HostNames[1]>>
    /\ ~reboot_after

\* the controller answers the GET of the Attributes endpoint with 200 and
\* a bag that is not empty (the empty bag is the initial value)
AnswerAttributes ==
    /\ attributes = <<>>
    /\ reading = NoReading
    /\ attributes' \in AttributeBags \ {<<>>}
    /\ UNCHANGED <<reading, mgrVars, toolVars>>

\* get_ipmi_status scans the bag, disable_ipmi takes the flag
ReadAttributes ==
    /\ reading = NoReading
    /\ reading' = ReadingOf(attributes)
    /\ UNCHANGED <<attributes, mgrVars, toolVars>>

BagNext == AnswerAttributes \/ ReadAttributes

BagSpec == BagInit /\ [][BagNext]_vars

TypeOK ==
    /\ variant \in {"http", "shell"}
    /\ hosts \in HostLists
    /\ reboot_after \in BOOLEAN
    /\ pc \in {"loop", "pace", "done", "exited", "read", "netproto", "attr_get",
               "attr_patch", "wait", "verify", "reboot", "ssh_read",
               "ssh_set", "ssh_wait", "ssh_verify", "interrupted"}
    /\ i \in 0..Len(hosts)
    /\ success_count \in 0..Len(hosts)
    /\ fail_count \in 0..Len(hosts)
    /\ status \in {"none", "failed", "enabled", "disabled", "raised"}
    /\ apply \in {"none", "ok", "failed", "raised"}
    /\ verify \in {"none", "confirmed", "unconfirmed", "unavailable", "raised"}
    /\ reboot \in {"none", "ok", "failed"}
    /\ writes \in 0..4
    /\ posts \in 0..2
    /\ session \in 0..5
    /\ exit_code \in {-1, 0, 1}
    /\ Len(logfile) \in 0..MaxLog
    /\ clock \in 0..MaxLog
    /\ interrupt_at \in -1..Len(hosts)
    /\ mgr_pc \in {"idle", "dns", "dns_true", "dns_false"}
    /\ mgr_cand \in 0..2
    /\ Len(mgr_log) \in 0..(MaxCalls + Len(DnsEndpoints))
    /\ mgr_ret.called \in BOOLEAN
    /\ Len(attributes) \in 0..MaxAttrs
    /\ reading.found \in BOOLEAN

(***************************************************************************)
(* Properties                                                              *)
(***************************************************************************)
\* disable_ipmi has returned for the current host and its result is recorded
Returned == pc \in {"loop", "pace", "done", "exited"} /\ i > 0 /\ Len(results) = i

\* the boolean disable_ipmi returned for the current host
Succeeded == results[i].ok

HttpPasses == {"read", "verify", "netproto", "reboot"}

\* C1: HTTP variant: when the initial status read succeeds and reports IPMI
\* disabled, disable_ipmi returns True for that host and neither a write
\* (PATCH) nor a restart (POST) request is ever sent to it, whatever
\* reboot_after is.
C1_AlreadyDisabledShortCircuit ==
    (variant = "http" /\ status = "disabled") =>
        /\ Returned
        /\ Succeeded
        /\ writes = 0
        /\ posts = 0
        /\ apply = "none"

C1_Witness ==
    /\ variant = "http"
    /\ reboot_after
    /\ status = "disabled"
    /\ Returned
    /\ Succeeded
    /\ Len(passlog) = 3

C3_Original ==
    (variant = "http" /\ pass \in HttpPasses) =>
        \A k \in 1..(Len(passlog) - 1) : passlog[k].st = 404

\* C4 as stated: a transport-level error on a candidate ends the pass: no
\* further candidate of that step is requested after it.
C4_Original ==
    (variant = "http" /\ pass \in HttpPasses \cup {"attributes"}) =>
        \A k \in 1..(Len(passlog) - 1) : passlog[k].st # TransportError.st

\* C5 as stated: HTTP variant: a restart request is sent only if the apply
\* succeeded, the verification was Unconfirmed or VerifyUnavailable and
\* escalation is enabled; never when verification is Confirmed.
C5_Original ==
    (variant = "http" /\ posts > 0) =>
        /\ apply = "ok"
        /\ verify \in {"unconfirmed", "unavailable"}
        /\ reboot_after

\* C5 amended: HTTP variant: a restart request is sent only if the apply
\* succeeded, the verification read returned (Confirmed, Unconfirmed or
\* VerifyUnavailable) and escalation is enabled; with escalation enabled it
\* is sent also when verification is Confirmed, and it is never sent when
\* escalation is disabled.
C5_RestartOnlyIfRequested ==
    /\ (variant = "http" /\ (posts > 0 \/ pc = "reboot")) =>
          /\ apply = "ok"
          /\ verify \in {"confirmed", "unconfirmed", "unavailable"}
          /\ reboot_after
    /\ (variant = "http" /\ Returned /\ reboot_after /\ apply = "ok"
            /\ verify \in {"confirmed", "unconfirmed", "unavailable"}) =>
          posts > 0

C5_Witness ==
    /\ variant = "http"
    /\ verify = "confirmed"
    /\ posts > 0
    /\ Returned

\* C6 as stated: a Target Result is Succeeded only if (the apply outcome was
\* Success and the verification read did not report IPMI still enabled) or
\* the verification read was unavailable; both variants.  Stated for the
\* hosts on which the apply step was reached.
C6_Original ==
    (Returned /\ Succeeded /\ apply # "none") =>
        \/ apply = "ok" /\ verify # "unconfirmed"
        \/ verify = "unavailable"

\* C6 amended: a Target Result is Succeeded only if the apply outcome was
\* Success, or (HTTP variant) the initial read reported IPMI already disabled
\* and no apply was made.  In the HTTP variant an accepted apply yields
\* Succeeded whatever the verification read returned, also when it still
\* reports enabled; in the shell variant only if the verification read did
\* not report still enabled (disabled, or unavailable).
C6_SucceededOnlyIf ==
    (Returned /\ Succeeded) =>
        \/ /\ variant = "http"
           /\ \/ status = "disabled" /\ apply = "none" /\ verify = "none"
              \/ /\ apply = "ok"
                 /\ verify \in {"confirmed", "unconfirmed", "unavailable"}
        \/ /\ variant = "shell"
           /\ apply = "ok"
           /\ verify \in {"confirmed", "unavailable"}

C6_Witness ==
    /\ variant = "http"
    /\ Returned
    /\ Succeeded
    /\ apply = "ok"
    /\ verify = "unconfirmed"
    /\ ~reboot_after

\* C7: HTTP variant: when the apply succeeded and the verification is
\* Unconfirmed or VerifyUnavailable, the step that records the host's result
\* increments success_count and leaves fail_count unchanged, whether no
\* restart was asked for, the restart succeeded or the restart failed.
C7_UnverifiedCountsAsSuccess ==
    [][(/\ variant = "http"
        /\ Len(results') = Len(results) + 1
        /\ apply' = "ok"
        /\ verify' \in {"unconfirmed", "unavailable"})
         => (/\ success_count' = success_count + 1
             /\ fail_count' = fail_count
             /\ reboot' \in (IF reboot_after THEN {"ok", "failed"}
                                             ELSE {"none"}))]_vars

C7_Witness ==
    /\ variant = "http"
    /\ Returned
    /\ apply = "ok"
    /\ verify = "unavailable"
    /\ reboot = "ok"
    /\ success_count = 2
    /\ fail_count = 0

\* C8 as stated: shell variant: when the write command was accepted and the
\* verification re-read succeeds but still shows IPMI enabled, the host is
\* counted as a batch success, as when the re-read fails.
C8_Original ==
    (variant = "shell" /\ Returned /\ apply = "ok"
        /\ verify \in {"unconfirmed", "unavailable"}) =>
        Succeeded

\* C8 amended: shell variant: when the write command was accepted and the
\* verification re-read succeeds but shows no disabled marker (Unconfirmed),
\* disable_ipmi returns False and the host is counted as a batch failure;
\* it is counted as a success when the re-read fails (VerifyUnavailable) or
\* shows IPMI disabled.
C8_ShellUnconfirmedFails ==
    (variant = "shell" /\ Returned /\ apply = "ok") =>
        /\ Succeeded <=> verify \in {"confirmed", "unavailable"}
        /\ verify = "unconfirmed" => fail_count > 0
        /\ verify = "unavailable" => success_count > 0

C8_Witness ==
    /\ variant = "shell"
    /\ Returned
    /\ apply = "ok"
    /\ verify = "unconfirmed"
    /\ ~Succeeded
    /\ fail_count = 1

\* C9: a failed restart (every reset candidate 404, a non-2xx reset status,
\* or transport errors) never changes the host's result: whenever
\* reboot_idrac returned False, disable_ipmi returns True.
C9_FailedRestartKeepsSuccess ==
    (variant = "http" /\ reboot = "failed") =>
        /\ Returned
        /\ Succeeded
        /\ apply = "ok"
        /\ success_count > 0

C9_Witness ==
    /\ variant = "http"
    /\ reboot = "failed"
    /\ Returned
    /\ Succeeded
    /\ pass = "reboot"
    /\ Len(passlog) = Len(ResetEndpoints)
    /\ \A k \in 1..Len(passlog) : passlog[k].st = 404

\* number of entries of a result list that are successes
RECURSIVE CountOk(_)
CountOk(rs) ==
    IF rs = <<>> THEN 0
    ELSE (IF rs[1].ok THEN 1 ELSE 0) + CountOk(Tail(rs))

\* C10: for every batch and every combination of per-host outcomes the
\* counts add up to the number of hosts processed so far (to n when
\* process_hosts returns), success_count counts exactly the True results,
\* and the results are accumulated in input order, one host at a time.
C10_CountsAndOrder ==
    /\ success_count + fail_count = Len(results)
    /\ success_count = CountOk(results)
    /\ Len(results) = IF pc \in {"loop", "pace", "done", "exited"} THEN i
                                                                   ELSE i - 1
    /\ \A k \in 1..Len(results) : results[k].host = hosts[k]
    /\ pc = "done" => (i = Len(hosts) /\ success_count + fail_count = Len(hosts))

C10_Witness ==
    /\ pc = "done"
    /\ Len(hosts) >= 2
    /\ hosts[1] # hosts[2]
    /\ results[1].ok
    /\ ~results[2].ok
    /\ success_count = 1
    /\ fail_count = Len(hosts) - 1

\* the positions at which the run of disable_ipmi for host i is in progress
Running == pc \notin {"loop", "pace", "done", "exited"}

\* C11: the batch always attempts every target: once host k has a Failed
\* result and is not the last, host k+1 is started; the first host is
\* started; and process_hosts never returns before every host of the list
\* has been started and has its result.
C11_EveryTargetAttempted ==
    /\ \A k \in 1..MaxHosts :
          (Returned /\ i = k /\ ~Succeeded /\ k < Len(hosts))
              ~> (i = k + 1 /\ Running)
    /\ <>(i >= 1)
    /\ [](pc \in {"done", "exited"} =>
             (i = Len(hosts) /\ Len(results) = Len(hosts)))

C11_Witness ==
    /\ Len(hosts) >= 2
    /\ i = 2
    /\ Running
    /\ ~results[1].ok

\* C12: after a completed batch the exit code is 0 if and only if fail_count
\* is 0, that is if and only if every host succeeded; any failure, partial
\* or total, gives the same non-zero code 1.
C12_ExitCode ==
    /\ pc = "exited" =>
          /\ exit_code = 0 <=> fail_count = 0
          /\ exit_code = 0 <=> \A k \in 1..Len(results) : results[k].ok
          /\ exit_code # 0 => exit_code = 1
          /\ Len(results) = Len(hosts)
    /\ pc # "exited" => exit_code = -1

C12_Witness ==
    /\ pc = "exited"
    /\ exit_code = 1
    /\ success_count = 1
    /\ fail_count = 1

\* every request of the pass in the log answered 404
AllNotFound == \A k \in 1..Len(passlog) : passlog[k].st = 404

\* C13: HTTP variant: if the status read shows enabled and every apply
\* request answers 404 (both NetworkProtocol PATCHes, both Attributes GETs),
\* disable_ipmi returns False with the message that the endpoint is not
\* available; for a single-host batch the counts are 0 / 1 and the exit code
\* is non-zero.
C13_AllApplyNotFound ==
    (/\ variant = "http"
     /\ status = "enabled"
     /\ pass = "attributes"
     /\ Len(passlog) = Len(NetworkProtocolEndpoints) + Len(AttributesEndpoints)
     /\ AllNotFound) =>
        /\ Returned
        /\ ~Succeeded
        /\ apply = "failed"
        /\ message = "Attributes endpoint not available"
        /\ verify = "none"
        /\ Len(hosts) = 1 => (success_count = 0 /\ fail_count = 1)
        /\ (Len(hosts) = 1 /\ pc = "exited") => exit_code = 1

C13_Witness ==
    /\ variant = "http"
    /\ Len(hosts) = 1
    /\ pc = "exited"
    /\ status = "enabled"
    /\ pass = "attributes"
    /\ Len(passlog) = Len(NetworkProtocolEndpoints) + Len(AttributesEndpoints)
    /\ AllNotFound
    /\ passlog[1].m = "PATCH"
    /\ passlog[4].m = "GET"
    /\ exit_code = 1

\* the candidate list of a pass
Endpoints(p) ==
    IF p \in {"read", "verify"} THEN StatusEndpoints
    ELSE IF p = "netproto" THEN NetworkProtocolEndpoints
    ELSE IF p = "attributes" THEN AttributesEndpoints
    ELSE ResetEndpoints

\* C14 as stated: a 404 answer never fails a step by itself: when a step
\* (status read, NetworkProtocol apply, Attributes apply) has failed and its
\* last request answered 404, every candidate of the step had been requested.
C14_Original ==
    (/\ variant = "http"
     /\ Returned
     /\ pass \in {"read", "netproto", "attributes"}
     /\ status = "failed" \/ apply = "failed"
     /\ passlog[Len(passlog)].st = 404) =>
        passlog[Len(passlog)].ep = Endpoints(pass)[Len(Endpoints(pass))]

\* C15: if the initial status read fails outright (no candidate yields the
\* setting, the SSH command fails, or the read raises), disable_ipmi returns
\* False, the message is the error of the read, and no apply request, no
\* verification read and no restart request is sent to that host.
C15_ReadFailureEndsHost ==
    status \in {"failed", "raised"} =>
        /\ Returned
        /\ ~Succeeded
        /\ pass \in {"read", "ssh_read"}
        /\ apply = "none"
        /\ verify = "none"
        /\ reboot = "none"
        /\ writes = 0
        /\ posts = 0
        /\ message = IF variant = "shell" THEN passlog[Len(passlog)].body
                     ELSE IF status = "raised" THEN "exception"
                     ELSE "Could not find IPMI settings endpoint"

C15_Witness ==
    /\ variant = "shell"
    /\ status = "failed"
    /\ Returned
    /\ message = "Authentication failed - check username/password"
    /\ fail_count = 2

\* C16: if the apply step fails, disable_ipmi returns False and neither a
\* verification read nor a restart request is issued afterwards.
C16_ApplyFailureEndsHost ==
    apply \in {"failed", "raised"} =>
        /\ Returned
        /\ ~Succeeded
        /\ pass \in {"attributes", "ssh_set"}
        /\ verify = "none"
        /\ reboot = "none"
        /\ posts = 0

C16_Witness ==
    /\ variant = "http"
    /\ apply = "failed"
    /\ passlog[1].st = 500
    /\ message = "HTTP 500"
    /\ Returned
    /\ ~Succeeded

\* C17 as stated: every run of disable_ipmi terminates with exactly one
\* result, whatever the transport delivers, raised errors included: once
\* host k is started its result is recorded, and at no time is more than one
\* result recorded per started host.
C17_Original ==
    /\ \A k \in 1..MaxHosts :
          (i = k /\ Running) ~> (i = k /\ Returned)
    /\ [](Len(results) = IF Running THEN i - 1 ELSE i)
    /\ [](pc \in {"loop", "pace", "done", "exited", "read", "netproto",
                  "attr_get", "attr_patch", "wait", "verify", "reboot",
                  "ssh_read", "ssh_set", "ssh_wait", "ssh_verify"})

\* C18: HTTP variant: when the apply succeeded, the verification is
\* Unconfirmed or VerifyUnavailable and reboot_after is set, exactly one pass
\* over the reset candidates is made before the result is produced (each
\* candidate at most once, in order, with ResetType GracefulRestart), and if
\* a candidate accepts the restart the host is Succeeded.
C18_OneRestartPass ==
    (/\ variant = "http"
     /\ Returned
     /\ apply = "ok"
     /\ verify \in {"unconfirmed", "unavailable"}
     /\ reboot_after) =>
        /\ pass = "reboot"
        /\ posts = Len(passlog)
        /\ posts \in 1..Len(ResetEndpoints)
        /\ \A k \in 1..Len(passlog) :
              /\ passlog[k].m = "POST"
              /\ passlog[k].ep = ResetEndpoints[k]
              /\ passlog[k].payload = "ResetType=GracefulRestart"
              /\ passlog[k].host = hosts[i]
        /\ reboot \in {"ok", "failed"}
        /\ reboot = "ok" <=> passlog[Len(passlog)].st \in {200, 204}
        /\ reboot = "ok" => Succeeded

C18_Witness ==
    /\ variant = "http"
    /\ Returned
    /\ Succeeded
    /\ apply = "ok"
    /\ verify = "unconfirmed"
    /\ reboot = "ok"
    /\ posts = 2

\* a request is sent in this step
RequestStep == pc # "loop" /\ <<pass, passlog>>' # <<pass, passlog>>

\* C19: execution is strictly sequential: every request is made by the one
\* run in progress, goes to the current host, and is made only when the
\* results of all earlier hosts are recorded and none of a later one; a host
\* is started only when the previous host's result is recorded.
C19_Sequential ==
    [][/\ RequestStep =>
            /\ Running
            /\ Len(results) = i - 1
            /\ i' = i
            /\ Len(passlog') \in {1, Len(passlog) + 1}
            /\ passlog'[Len(passlog')].host = hosts[Len(results) + 1]
       /\ i' # i => (pc = "loop" /\ i' = i + 1 /\ Len(results) = i
                        /\ results' = results)]_vars

C19_Witness ==
    /\ Len(hosts) >= 2
    /\ hosts[1] # hosts[2]
    /\ i = 2
    /\ Running
    /\ Len(results) = 1
    /\ Len(passlog) >= 1
    /\ passlog[1].host = hosts[2]

\* C20 as stated: in both tools, when a host's run ends and another host
\* follows, the next step is the pacing delay.
C20_Original ==
    [][(Len(results') = Len(results) + 1 /\ i < Len(hosts))
          => pc' = "pace"]_vars

\* C21 as stated: HTTP variant: every request of the run for one host goes
\* through one single session, and no session is used for two hosts.
C21_Original ==
    variant = "http" =>
        /\ session <= 1
        /\ \A k \in 1..Len(passlog) :
              /\ passlog[k].session = 1
              /\ passlog[k].host = hosts[i]

\* the controller rejected the credentials at every request of the initial
\* status read: HTTP 401 from each candidate, or paramiko's
\* AuthenticationException
AuthRejected ==
    /\ pass \in {"read", "ssh_read"}
    /\ \A k \in 1..Len(passlog) :
          IF variant = "http"
            THEN passlog[k].st = 401
            ELSE passlog[k].body = "Authentication failed - check username/password"

\* disable_ipmi: the text of the `Error: ...` line logged when the initial
\* status read failed with the requests in `log`: the message returned by
\* get_ipmi_status after its loop, or the error of execute_ssh_command
ReadFailureMessage(v, log) ==
    IF v = "http" THEN "Could not find IPMI settings endpoint"
    ELSE log[Len(log)].body

\* the initial status read of a host that is unreachable or times out
UnreachableRead(v) ==
    IF v = "http"
      THEN [k \in 1..Len(StatusEndpoints) |-> TransportError]
      ELSE <<[st |-> 0, body |-> "Connection error"]>>

\* C22 as stated: in both variants, when the credentials are rejected during
\* the initial status read the host is Failed and the logged error message
\* differs from the one logged for a host that is unreachable or times out.
C22_Original ==
    (status = "failed" /\ AuthRejected) =>
        /\ Returned
        /\ ~Succeeded
        /\ message = ReadFailureMessage(variant, passlog)
        /\ message # ReadFailureMessage(variant, UnreachableRead(variant))

\* the positions of the fixed wait and of the verification re-read
VerifyPcs == {"wait", "verify", "ssh_wait", "ssh_verify"}

\* C23: after a successful apply the verification is one fixed wait followed
\* by exactly one status re-read: the wait is entered only by the step that
\* makes the apply succeed and leads straight to the re-read; the re-read is
\* one resolver pass (each status candidate at most once, in order; one
\* command in the shell tool); once the verification outcome is known the
\* run never waits or reads the status again for that host.
C23_SingleWaitSingleReread ==
    /\ [][(pc' \in {"wait", "ssh_wait"} /\ pc' # pc) =>
             (apply # "ok" /\ apply' = "ok" /\ verify = "none")]_vars
    /\ [][(pc \in {"wait", "ssh_wait"}) =>
             (/\ pc' = (IF variant = "http" THEN "verify" ELSE "ssh_verify")
              /\ passlog' = passlog)]_vars
    /\ [][(verify # "none" /\ i' = i) => pc' \notin VerifyPcs]_vars
    /\ [](pass = "verify" =>
             /\ Len(passlog) <= Len(StatusEndpoints)
             /\ \A k \in 1..Len(passlog) :
                   passlog[k].m = "GET" /\ passlog[k].ep = StatusEndpoints[k])
    /\ [](pass = "ssh_verify" => Len(passlog) = 1)

C23_Witness ==
    /\ variant = "http"
    /\ Returned
    /\ pass = "verify"
    /\ verify = "unconfirmed"
    /\ Len(passlog) = Len(StatusEndpoints)

\* the batch [A, B] has been processed: A was read as already disabled, B was
\* read as enabled, its apply succeeded and its verification confirmed it
ScenarioAB ==
    /\ pc \in {"done", "exited"}
    /\ Len(hosts) = 2
    /\ results[1].status = "disabled"
    /\ status = "enabled"
    /\ apply = "ok"
    /\ verify = "confirmed"

\* the steps of a run in the order of disable_ipmi
StepRank(p) ==
    IF p = "none" THEN 0
    ELSE IF p \in {"read", "ssh_read"} THEN 1
    ELSE IF p \in {"netproto", "attributes", "ssh_set"} THEN 2
    ELSE IF p \in {"verify", "ssh_verify"} THEN 3
    ELSE 4

\* the requests of one host are made in the order read, apply, verify, and
\* a request is always made to the current host, which never goes back
RequestOrder ==
    [][/\ RequestStep =>
            /\ StepRank(pass') >= StepRank(pass)
            /\ passlog'[Len(passlog')].host = hosts[i]
            /\ i' = i
       /\ i' >= i]_vars

FreshRun ==
    /\ pass = "none"
    /\ cand = 1
    /\ passlog = <<>>
    /\ status = "none"
    /\ apply = "none"
    /\ verify = "none"
    /\ reboot = "none"
    /\ writes = 0
    /\ posts = 0
    /\ session = 0
    /\ message = "none"

\* the request made at position p with candidate index c
NextRequest(p, c) ==
    IF p \in {"read", "verify"} THEN <<"GET", StatusEndpoints[c]>>
    ELSE IF p = "netproto" THEN <<"PATCH", NetworkProtocolEndpoints[c]>>
    ELSE IF p = "attr_get" THEN <<"GET", AttributesEndpoints[c]>>
    ELSE IF p = "attr_patch" THEN <<"PATCH", AttributesEndpoints[c]>>
    ELSE IF p = "reboot" THEN <<"POST", ResetEndpoints[c]>>
    ELSE IF p = "ssh_set" THEN <<"SSH", "racadm set iDRAC.IPMILan.Enable 0">>
    ELSE <<"SSH", "racadm get iDRAC.IPMILan.Enable">>

\* the boolean disable_ipmi returns, from what its own steps gave
ResultOf(v, st, ap, ve) ==
    IF st \in {"failed", "raised"} THEN FALSE
    ELSE IF v = "http" /\ st = "disabled" THEN TRUE
    ELSE IF ap # "ok" THEN FALSE
    ELSE IF ve = "raised" THEN FALSE
    ELSE IF v = "shell" /\ ve = "unconfirmed" THEN FALSE
    ELSE TRUE

\* C25: the outcome for a host depends only on that host's own responses
\* and on reboot_after: every run starts from the same fresh state whatever
\* the earlier hosts gave, each request is fixed by the position the run
\* has reached in its own responses, the counters and the earlier results
\* are never changed by a request step, and the result is a function of
\* what the host's own steps gave.
C25_TargetIsolation ==
    /\ [][i' # i => FreshRun']_vars
    /\ [][RequestStep =>
             /\ <<passlog'[Len(passlog')].m, passlog'[Len(passlog')].ep>>
                    = NextRequest(pc, cand)
             /\ passlog'[Len(passlog')].host = hosts[i]
             /\ SubSeq(results', 1, Len(results)) = results]_vars
    /\ [](Returned => (Succeeded = ResultOf(variant, status, apply, verify)))

C25_Witness ==
    /\ Len(hosts) = 2
    /\ Returned
    /\ i = 2
    /\ ~results[1].ok
    /\ results[1].status = "enabled"
    /\ Succeeded
    /\ status = "enabled"
    /\ verify = "unavailable"

\* C26 as stated: every transport call returns within its timeout even when
\* the remote side never responds, so the batch always terminates.
C26_Original == <>(pc = "exited")

\* a step that is one call of execute_ssh_command
SshCallStep == pc \in SshCallPcs /\ <<pass, passlog>>' # <<pass, passlog>>

\* C27: shell transport: each execute_ssh_command call opens exactly one
\* connection, a new one (not used by an earlier call), and runs its
\* command at most once; a call that failed is not repeated: the run leaves
\* that call without connecting or executing again.
C27_OneSessionPerCall ==
    [][SshCallStep =>
          /\ session' = session + 1
          /\ Len(passlog') = 1
          /\ passlog'[1].session = session'
          /\ passlog'[1].host = hosts[i]
          /\ writes' \in {writes, writes + 1}
          /\ pc' # pc
          /\ passlog'[1].st = 0 => pc' \notin SshCallPcs]_vars

C27_Witness ==
    /\ variant = "shell"
    /\ Returned
    /\ pass = "ssh_set"
    /\ session = 2
    /\ passlog[1].session = 2
    /\ passlog[1].st = 0
    /\ writes = 1


\* C28: the run log is append-only and ordered: a step of log_message leaves
\* every entry already in the file where it was and adds exactly one entry
\* at the end, stamped with the time of the call and carrying the message
\* passed; no other step touches the file.
C28_AppendOnly ==
    [][\/ logfile' = logfile
       \/ /\ Len(logfile') = Len(logfile) + 1
          /\ SubSeq(logfile', 1, Len(logfile)) = logfile
          /\ logfile'[Len(logfile')].ts = clock
          /\ logfile'[Len(logfile')].text \in LogMessages]_vars

\* a file left by an earlier run has received two messages at different times
C28_Witness ==
    /\ Len(logfile) = 3
    /\ logfile[1] = LogEntry(0, "Summary")
    /\ logfile[2].ts < logfile[3].ts
    /\ logfile[2].text # logfile[3].text


\* a request that switches IPMI on
Enabling(req) ==
    \/ req.payload \in {"IPMI.ProtocolEnabled=true", "Attributes.ipmi_key=Enabled"}
    \/ req.ep = "racadm set iDRAC.IPMILan.Enable 1"

\* C29 as stated: once an interrupt has been raised during the batch, no
\* request is sent to a target that had not been started when it was raised,
\* and no request that re-enables IPMI is sent.
C29_Original ==
    [][(interrupt_at >= 0 /\ RequestStep) =>
          /\ i' <= interrupt_at
          /\ ~Enabling(passlog'[Len(passlog')])]_vars


\* str.lower() on the characters the outputs are made of
LowerChar(c) ==
    CASE c = "E" -> "e"
      [] c = "D" -> "d"
      [] c = "K" -> "k"
      [] OTHER -> c

Lower(s) == [k \in 1..Len(s) |-> LowerChar(s[k])]

\* the verification output matches a disabled marker when letter case is
\* ignored
MatchesIgnoringCase(out) ==
    \/ Contains(Lower(out), Lower(EnableDisabled))
    \/ Contains(Lower(out), Lower(EnableZero))

\* C30 as stated: shell variant: after an accepted write and a verification
\* read that succeeded, the host is classified as disabled (and succeeds)
\* exactly when the verification output contains a disabled marker, letter
\* case ignored.
C30_Original ==
    (/\ variant = "shell"
     /\ Returned
     /\ pass = "ssh_verify"
     /\ passlog[Len(passlog)].st = 200)
        => (Succeeded <=> MatchesIgnoringCase(passlog[Len(passlog)].out))


\* the requests of the apply log sent by disable_ipmi_networkprotocol
NetworkProtocolRequests ==
    {k \in 1..Len(passlog) :
        passlog[k].m = "PATCH"
            /\ \E c \in 1..Len(NetworkProtocolEndpoints) :
                  passlog[k].ep = NetworkProtocolEndpoints[c]}

\* C31 as stated: HTTP apply step: a request goes to an Attributes candidate
\* only when every NetworkProtocol candidate was requested and answered 404;
\* after a definitive failure of a NetworkProtocol candidate (401, 500) no
\* Attributes endpoint is requested.
C31_Original ==
    (variant = "http" /\ pass = "attributes") =>
        /\ Cardinality(NetworkProtocolRequests) = Len(NetworkProtocolEndpoints)
        /\ \A k \in NetworkProtocolRequests : passlog[k].st = 404


\* the requests of log sent with method m to a candidate of the list eps
RequestsTo(log, m, eps) ==
    SelectSeq(log, LAMBDA q : q.m = m /\ \E c \in 1..Len(eps) : q.ep = eps[c])

\* the k-th request of seq goes to the k-th candidate of eps
InListOrder(seq, eps) ==
    /\ Len(seq) <= Len(eps)
    /\ \A k \in 1..Len(seq) : seq[k].ep = eps[k]

\* the requests of seq go to candidates of eps taken in list order, each
\* candidate at most once
OnceInListOrder(seq, eps) ==
    \A j, k \in 1..Len(seq) :
        j < k => \E a, b \in 1..Len(eps) :
                    a < b /\ seq[j].ep = eps[a] /\ seq[k].ep = eps[b]

\* C32: in every HTTP resolver pass the candidates are requested in the order
\* of the declared list and each at most once: the k-th request of a status
\* read, of the NetworkProtocol apply, of the Attributes GETs and of the
\* restart goes to the k-th candidate, and the Attributes PATCHes go to
\* distinct candidates in list order; so no candidate, failed or not, is
\* requested a second time in its pass.
C32_DeclaredOrderOnce ==
    variant = "http" =>
        /\ pass \in {"read", "verify", "reboot"} =>
              InListOrder(passlog, Endpoints(pass))
        /\ pass \in {"netproto", "attributes"} =>
              /\ InListOrder(RequestsTo(passlog, "PATCH", NetworkProtocolEndpoints),
                             NetworkProtocolEndpoints)
              /\ InListOrder(RequestsTo(passlog, "GET", AttributesEndpoints),
                             AttributesEndpoints)
              /\ OnceInListOrder(RequestsTo(passlog, "PATCH", AttributesEndpoints),
                                 AttributesEndpoints)

\* an apply step that requested every candidate: the second NetworkProtocol
\* candidate failed with 500 and was not requested again, both Attributes
\* candidates were read and written
C32_Witness ==
    /\ variant = "http"
    /\ pass = "attributes"
    /\ Len(passlog) = 6
    /\ passlog[2].st = 500
    /\ Len(RequestsTo(passlog, "PATCH", AttributesEndpoints)) = 2


\* C33 as stated: set_dns_servers requests the Attributes candidate first and
\* the NetworkProtocol candidate second, returns True at the first success
\* with no later request, and requests the second candidate only when the
\* first answered 404.
C33_Original ==
    mgr_pc \in {"dns", "dns_true", "dns_false"} =>
        /\ \A k \in 1..Len(mgr_log) :
              mgr_log[k].m = "PATCH" /\ mgr_log[k].ep = DnsEndpoints[k]
        /\ \A k \in 1..(Len(mgr_log) - 1) : ~ApiSucceeds(mgr_log[k].st)
        /\ mgr_pc = "dns_true" => mgr_ret.ok
        /\ Len(mgr_log) = 2 => (mgr_log[1].st = 404)


\* C34: api_request never raises; it returns (True, payload) exactly when a
\* response came back with status 200, 201, 202 or 204, and (False, message)
\* for every other status, a timeout, a connection error or any other
\* exception; for a method it does not serve it returns (False, message) and
\* no request has been sent.
C34_ApiRequestTotal ==
    mgr_ret.called =>
        /\ ~mgr_ret.raised
        /\ mgr_ret.ok <=> /\ Upper(mgr_ret.method) \in SupportedMethods
                          /\ mgr_ret.kind = "response"
                          /\ mgr_ret.st \in {200, 201, 202, 204}
        /\ mgr_ret.ok <=> (mgr_ret.msg = "payload")
        /\ IF Upper(mgr_ret.method) \in SupportedMethods
             THEN Len(mgr_log) = mgr_ret.before + 1
             ELSE /\ Len(mgr_log) = mgr_ret.before
                  /\ mgr_ret.msg = "Unsupported method"

\* the session call raised an exception that is neither a timeout nor a
\* connection error, and api_request returned (False, message)
C34_Witness ==
    /\ mgr_ret.called
    /\ mgr_ret.kind = "other"
    /\ ~mgr_ret.ok
    /\ mgr_ret.msg = "Error"
    /\ Len(mgr_log) = 1


\* C35: neither tool ever sends a request that enables IPMI: every PATCH sets
\* IPMI.ProtocolEnabled to false or the discovered attribute to "Disabled",
\* every POST is a manager GracefulRestart, every GET has no body, and every
\* SSH command is the status query or 'racadm set iDRAC.IPMILan.Enable 0'.
C35_NeverEnables ==
    \A k \in 1..Len(passlog) :
        LET q == passlog[k]
        IN  /\ q.m \in {"GET", "PATCH", "POST", "SSH"}
            /\ q.m = "GET" => q.payload = "none"
            /\ q.m = "PATCH" => q.payload \in {"IPMI.ProtocolEnabled=false",
                                               "Attributes.ipmi_key=Disabled"}
            /\ q.m = "POST" => q.payload = "ResetType=GracefulRestart"
            /\ q.m = "SSH" => q.ep \in {"racadm get iDRAC.IPMILan.Enable",
                                        "racadm set iDRAC.IPMILan.Enable 0"}

\* a target whose verification read showed IPMI disabled receives one more
\* mutating request, the restart
C35_Witness ==
    /\ variant = "http"
    /\ apply = "ok"
    /\ verify = "confirmed"
    /\ pass = "reboot"
    /\ passlog[Len(passlog)].m = "POST"
    /\ Returned


\* C36 as stated: every SSH connection opened by execute_ssh_command has been
\* closed when the call returns, on the success path and on every error path.
C36_Original ==
    variant = "shell" =>
        \A k \in 1..Len(passlog) : passlog[k].connected => passlog[k].closed


\* the answer logged as q is a 200 that carries the IPMI setting
CarriesSetting(q) == q.st = 200 /\ q.body \in {"setting_on", "setting_off"}

\* the status read whose log is passlog has returned (True, enabled, ...)
ReadSucceeded ==
    \/ pass = "read" /\ status \in {"enabled", "disabled"}
    \/ pass = "verify" /\ verify \in {"confirmed", "unconfirmed"}

\* the enabled flag it returned
ReadEnabled ==
    IF pass = "read" THEN status = "enabled" ELSE verify = "unconfirmed"

\* the status read whose log is passlog has returned (False, None, ...)
ReadFailed ==
    \/ pass = "read" /\ status = "failed"
    \/ pass = "verify" /\ verify = "unavailable"

\* C37: get_ipmi_status returns success with the flag of the first candidate,
\* in list order, whose 200 answer carries the IPMI setting: every candidate
\* requested before it answered without the setting (a 200 without it
\* included), and it returns the failure 'Could not find IPMI settings
\* endpoint' only when all three candidates were requested and none carried
\* the setting.
C37_FirstCandidateWithSetting ==
    (variant = "http" /\ pass \in {"read", "verify"}) =>
        /\ InListOrder(passlog, StatusEndpoints)
        /\ \A k \in 1..(Len(passlog) - 1) : ~CarriesSetting(passlog[k])
        /\ ReadSucceeded =>
              /\ CarriesSetting(passlog[Len(passlog)])
              /\ ReadEnabled <=> (passlog[Len(passlog)].body = "setting_on")
        /\ ReadFailed =>
              /\ Len(passlog) = Len(StatusEndpoints)
              /\ ~CarriesSetting(passlog[Len(passlog)])
        /\ (pass = "read" /\ status = "failed") =>
              message = "Could not find IPMI settings endpoint"

\* two candidates answered 200 without the setting, the third carries it
C37_Witness ==
    /\ variant = "http"
    /\ pass = "read"
    /\ status = "enabled"
    /\ Len(passlog) = 3
    /\ passlog[1].st = 200 /\ passlog[1].body = "no_setting"
    /\ passlog[2].st = 200 /\ passlog[2].body = "no_setting"
    /\ passlog[3].body = "setting_on"


\* the positions of the attributes whose key contains 'IPMI' and 'Enable'
IpmiEnablePositions ==
    {k \in 1..Len(attributes) :
        Contains(attributes[k].key, IPMI) /\ Contains(attributes[k].key, Enable)}

\* C38: when the status is read from the attribute bag, get_ipmi_status finds
\* the setting exactly when some key contains both 'IPMI' and 'Enable', takes
\* the first such attribute, and reports enabled exactly when its value is
\* "Enabled", "1", 1 or true; with any other value the target is reported
\* disabled and disable_ipmi returns True at once, before any apply request.
C38_AttributeFlag ==
    reading # NoReading =>
        /\ reading.found <=> (IpmiEnablePositions # {})
        /\ reading.found =>
              \E f \in IpmiEnablePositions :
                  /\ \A j \in IpmiEnablePositions : f <= j
                  /\ reading.key = attributes[f].key
                  /\ reading.enabled <=>
                        (attributes[f].value \in {"s:Enabled", "s:1", "n:1", "b:true"})
                  /\ reading.next = IF reading.enabled THEN "apply"
                                                       ELSE "succeeded"

\* the first matching attribute follows a key that does not match and has a
\* value that differs from "Enabled" only in letter case: reported disabled,
\* short-circuited
C38_Witness ==
    /\ Len(attributes) = 2
    /\ IpmiEnablePositions = {2}
    /\ attributes[2].value = "s:enabled"
    /\ reading.found
    /\ ~reading.enabled
    /\ reading.next = "succeeded"


\* the positions in the apply log of the PATCHes sent by
\* disable_ipmi_attributes
AttributesPatches ==
    {k \in 1..Len(passlog) :
        passlog[k].m = "PATCH"
            /\ \E c \in 1..Len(AttributesEndpoints) :
                  passlog[k].ep = AttributesEndpoints[c]}

\* C39 as stated: disable_ipmi_attributes sends a PATCH only to the endpoint
\* whose GET, the request just before, answered 200 with an IPMI enable key;
\* the body sets that key to "Disabled"; at most one PATCH is sent per call.
C39_Original ==
    (variant = "http" /\ pass = "attributes") =>
        /\ \A k \in AttributesPatches :
              /\ k > 1
              /\ passlog[k - 1].m = "GET"
              /\ passlog[k - 1].ep = passlog[k].ep
              /\ CarriesSetting(passlog[k - 1])
              /\ passlog[k].payload = "Attributes.ipmi_key=Disabled"
        /\ Cardinality(AttributesPatches) <= 1

====
